---- MODULE Spec2Model ----
(***************************************************************************)
(* A model of lsof.py (nmraz/pylsof): the classification of /proc link     *)
(* targets (read_fd), the per-process enumeration (get_proc_files) and the *)
(* scan loop (lsof).                                                       *)
(*                                                                         *)
(* Python strings are sequences of one-character strings, so that          *)
(* indexing, slicing, split and format are computed as Python computes     *)
(* them.  A Python call returns a record [exc, val]: exc = "none" and val  *)
(* the returned value, or exc the class of the exception raised.  The      *)
(* script is Python 2 (print statement, line 147): open() raises IOError,  *)
(* which `except OSError` does not catch.                                  *)
(***************************************************************************)
EXTENDS Integers, Sequences, FiniteSets, TLC

VARIABLES pc, listing, idx, pending, output, error, visited, call

vars == <<pc, listing, idx, pending, output, error, visited, call>>

\* the variables of the scan
scan_vars == <<pc, listing, idx, pending, output, error, visited>>

-----------------------------------------------------------------------------
(* Bounds of the model *)

\* longest /proc listing the scan is run on
MaxListing == 3
\* most entries of a /proc/<pid>/fd listing handed to get_proc_fds
MaxFds == 3
\* most lines of a /proc/<pid>/maps table handed to get_proc_maps
MaxLines == 3
\* most entries of the fd listing in the environments of get_proc_files
MaxFilesFds == 2

-----------------------------------------------------------------------------
(* String literals of lsof.py *)

s_proc == <<"/", "p", "r", "o", "c", "/">>
s_stat == <<"/", "s", "t", "a", "t">>
s_fd == <<"/", "f", "d">>
s_cwd == <<"/", "c", "w", "d">>
s_root == <<"/", "r", "o", "o", "t">>
s_exe == <<"/", "e", "x", "e">>
s_maps == <<"/", "m", "a", "p", "s">>
s_err_open == <<" ", "(", "e", "r", "r", "o", "r", ":", " ">>
s_anon_inode == <<"a", "n", "o", "n", "_", "i", "n", "o", "d", "e">>
s_socket == <<"s", "o", "c", "k", "e", "t">>
s_pipe == <<"p", "i", "p", "e">>
s_blah == <<"[", "b", "l", "a", "h", "]">>
s_NOFD == <<"N", "O", "F", "D">>
s_unknown == <<"u", "n", "k", "n", "o", "w", "n">>
s_REG == <<"R", "E", "G">>
s_DIR == <<"D", "I", "R">>
s_CHR == <<"C", "H", "R">>
s_FIFO == <<"F", "I", "F", "O">>
s_a_inode == <<"a", "_", "i", "n", "o", "d", "e">>
s_mem == <<"m", "e", "m">>
s_cwd_fd == <<"c", "w", "d">>
s_rtd == <<"r", "t", "d">>
s_txt == <<"t", "x", "t">>
s_zero == <<"0">>
s_empty == <<>>

-----------------------------------------------------------------------------
(* Python built-ins used by lsof.py *)

Return(v) == [exc |-> "none", val |-> v]
Raise(x, msg) == [exc |-> x, val |-> msg]

\* the value None
None == [class |-> "NoneType"]

Digits == <<"0", "1", "2", "3", "4", "5", "6", "7", "8", "9">>
DigitSet == {Digits[i] : i \in 1..10}
Whitespace == {" ", "\n", "\t"}

\* str(n) for an int n >= 0
RECURSIVE IntToStr(_)
IntToStr(n) ==
    IF n < 10 THEN <<Digits[n + 1]>>
    ELSE IntToStr(n \div 10) \o <<Digits[(n % 10) + 1]>>

\* s.isdigit()
isdigit(s) == s # <<>> /\ \A i \in 1..Len(s) : s[i] \in DigitSet

\* s.split(sep) for a one-character sep: every separator cuts, empty pieces kept
RECURSIVE SplitFrom(_, _, _, _, _)
SplitFrom(s, sep, i, cur, acc) ==
    IF i > Len(s) THEN Append(acc, cur)
    ELSE IF s[i] = sep THEN SplitFrom(s, sep, i + 1, <<>>, Append(acc, cur))
    ELSE SplitFrom(s, sep, i + 1, Append(cur, s[i]), acc)

Split(s, sep) == SplitFrom(s, sep, 1, <<>>, <<>>)

\* s.split(): cut at runs of whitespace, no empty pieces
RECURSIVE SplitWSFrom(_, _, _, _)
SplitWSFrom(s, i, cur, acc) ==
    IF i > Len(s) THEN (IF cur = <<>> THEN acc ELSE Append(acc, cur))
    ELSE IF s[i] \in Whitespace
         THEN SplitWSFrom(s, i + 1, <<>>, IF cur = <<>> THEN acc ELSE Append(acc, cur))
    ELSE SplitWSFrom(s, i + 1, Append(cur, s[i]), acc)

SplitWS(s) == SplitWSFrom(s, 1, <<>>, <<>>)

\* sep.join(parts)
RECURSIVE Join(_, _)
Join(sep, parts) ==
    IF parts = <<>> THEN <<>>
    ELSE IF Len(parts) = 1 THEN parts[1]
    ELSE parts[1] \o sep \o Join(sep, Tail(parts))

\* s[1:-1]
Slice1m1(s) == IF Len(s) <= 2 THEN <<>> ELSE SubSeq(s, 2, Len(s) - 1)

\* os.major / os.minor (glibc gnu_dev_major / gnu_dev_minor, device numbers below 2^31)
os_major(dev) == (dev \div 256) % 4096
os_minor(dev) == (dev % 256) + ((dev \div 1048576) * 256)

\* stat.S_IFMT(mode) >> 12 and the S_IS* tests of the stat module
S_IFMT12(mode) == (mode \div 4096) % 16
S_ISREG(mode) == S_IFMT12(mode) = 8
S_ISDIR(mode) == S_IFMT12(mode) = 4
S_ISCHR(mode) == S_IFMT12(mode) = 2
S_ISFIFO(mode) == S_IFMT12(mode) = 1

-----------------------------------------------------------------------------
(* The collaborators: what the operating system answers for one process.   *)
(* An environment e is the record                                          *)
(*   pid    the process the answers are about (a string, as listed)        *)
(*   proc   "alive", "exited" (/proc/<pid>/stat cannot be opened) or       *)
(*          "nouser" (the uid has no passwd entry)                         *)
(*   cwd, root, exe   the answer of readlink on /proc/<pid>/<name>         *)
(*   maps   the lines of /proc/<pid>/maps, or the failure of open()        *)
(*   fdlist the answers of readlink for the entries of /proc/<pid>/fd in   *)
(*          listing order, or the failure of listdir                       *)
(***************************************************************************)

\* strerror texts (the model keeps the errno names for the messages)
ENOENT == <<"E", "N", "O", "E", "N", "T">>
EACCES == <<"E", "A", "C", "C", "E", "S">>

\* link targets
P_slash == <<"/">>
P_a == <<"/", "a">>
P_b == <<"/", "b">>
P_t == <<"/", "t">>
P_s == <<"/", "s">>
P_x == <<"/", "x">>
T_sock == <<"s", "o", "c", "k", "e", "t", ":", "[", "5", "]">>
T_anon == <<"a", "n", "o", "n", "_", "i", "n", "o", "d", "e", ":", "[", "e", "]">>
T_kvm == <<"a", "n", "o", "n", "_", "i", "n", "o", "d", "e", ":", "k", ":", "0">>
T_pipe == <<"p", "i", "p", "e", ":", "[", "6", "]">>
T_net == <<"n", "e", "t", ":", "[", "4", "]">>
T_nocolon == <<"x">>

\* lines of a maps table
L_abs == <<"0", "-", "1", " ", "r", "-", "x", "p", " ", "0", "0", " ", "0", "8", ":", "0", "1", " ", "5", " ", "/", "a", "\n">>
L_abs2 == <<"6", "-", "7", " ", "r", "-", "-", "p", " ", "1", "0", " ", "f", "d", ":", "0", "0", " ", "9", " ", "/", "b", "\n">>
L_heap == <<"2", "-", "3", " ", "r", "w", "-", "p", " ", "0", "0", " ", "0", "0", ":", "0", "0", " ", "0", " ", "[", "h", "e", "a", "p", "]", "\n">>
L_anon == <<"4", "-", "5", " ", "r", "w", "-", "p", " ", "0", "0", " ", "0", "0", ":", "0", "0", " ", "0", "\n">>
L_bad == <<"x", "\n">>

\* the command and the user name of a live process
ProcCmd == <<"s", "h">>
ProcUser == <<"u">>

ProcStates == {"alive", "exited", "nouser"}

\* os.stat(path) on the file system of the model:
\*   /   directory on device 8,1            /a  regular file on 8,1, 7 bytes
\*   /b  regular file on 253,0, empty       /t  character device 136,1 on 0,6
\*   /s  socket file on 8,1                 anything else does not exist
os_stat(path) ==
    CASE path = P_slash ->
           Return([st_mode |-> 16877, st_dev |-> 2049, st_rdev |-> 0, st_size |-> 4096, st_ino |-> 2])
      [] path = P_a ->
           Return([st_mode |-> 33188, st_dev |-> 2049, st_rdev |-> 0, st_size |-> 7, st_ino |-> 5])
      [] path = P_b ->
           Return([st_mode |-> 33188, st_dev |-> 64768, st_rdev |-> 0, st_size |-> 0, st_ino |-> 9])
      [] path = P_t ->
           Return([st_mode |-> 8592, st_dev |-> 6, st_rdev |-> 34817, st_size |-> 0, st_ino |-> 4])
      [] path = P_s ->
           Return([st_mode |-> 49645, st_dev |-> 2049, st_rdev |-> 0, st_size |-> 0, st_ino |-> 11])
      [] OTHER -> Raise("OSError", ENOENT)

\* '/proc/{}/<name>'.format(pid)
ProcPath(pid, name) == s_proc \o pid \o name

\* the name of the i-th entry os.listdir yields for /proc/<pid>/fd (in no sorted order)
FdName(i) == IntToStr((7 * i) % 10)

\* '/proc/{}/fd/{}'.format(pid, fd)
FdPath(pid, fd) == ProcPath(pid, s_fd) \o <<"/">> \o fd

\* os.readlink(path)
os_readlink(e, path) ==
    IF path = ProcPath(e.pid, s_cwd) THEN e.cwd
    ELSE IF path = ProcPath(e.pid, s_root) THEN e.root
    ELSE IF path = ProcPath(e.pid, s_exe) THEN e.exe
    ELSE IF e.fdlist.exc = "none"
            /\ \E i \in 1..Len(e.fdlist.val) : path = FdPath(e.pid, FdName(i))
         THEN e.fdlist.val[CHOOSE i \in 1..Len(e.fdlist.val) : path = FdPath(e.pid, FdName(i))]
    ELSE Raise("OSError", ENOENT)

\* os.listdir(path) of a process's fd directory
os_listdir(e, path) ==
    IF path # ProcPath(e.pid, s_fd) THEN Raise("OSError", ENOENT)
    ELSE IF e.fdlist.exc # "none" THEN e.fdlist
    ELSE Return([i \in 1..Len(e.fdlist.val) |-> FdName(i)])

\* open(path) of a process's maps file, read line by line
open_maps(e, path) ==
    IF path # ProcPath(e.pid, s_maps) THEN Raise("IOError", ENOENT) ELSE e.maps

-----------------------------------------------------------------------------
(* lsof.py *)

\* get_cmd_user: open() of /proc/<pid>/stat raises IOError for a process that
\* is gone, pwd.getpwuid raises KeyError for a uid without a passwd entry;
\* neither is caught.  The texts of the stat and status files are not
\* modelled: a live process answers with its command and user name.
get_cmd_user(e, pid) ==
    IF pid # e.pid \/ e.proc = "exited" THEN Raise("IOError", ENOENT)
    ELSE IF e.proc = "nouser" THEN Raise("KeyError", <<>>)
    ELSE Return(<<ProcCmd, ProcUser>>)

\* FileInfo(pid, fd, type, dev, size, node, name): the exception of get_cmd_user
\* leaves __init__, and no object is made
FileInfo(e, pid, fd, type, dev, size, node, name) ==
    LET cu == get_cmd_user(e, pid)
    IN  IF cu.exc # "none" THEN cu
        ELSE Return([class |-> "FileInfo", pid |-> pid, cmd |-> cu.val[1],
                     usr |-> cu.val[2], fd |-> fd, type |-> type, dev |-> dev,
                     size |-> size, node |-> node, name |-> name])

get_type(stat_obj) ==
    LET mode == stat_obj.st_mode
    IN  IF S_ISREG(mode) THEN s_REG
        ELSE IF S_ISDIR(mode) THEN s_DIR
        ELSE IF S_ISCHR(mode) THEN s_CHR
        ELSE IF S_ISFIFO(mode) THEN s_FIFO
        ELSE s_unknown

fmt_dev(stat, use_rdev) ==
    IF use_rdev
    THEN IntToStr(os_major(stat.st_rdev)) \o <<",">> \o IntToStr(os_minor(stat.st_rdev))
    ELSE IntToStr(os_major(stat.st_dev)) \o <<",">> \o IntToStr(os_minor(stat.st_dev))

\* '{} (error: {})'.format(path, e.strerror)
ErrorName(path, strerror) == path \o s_err_open \o strerror \o <<")">>

\* the branch of read_fd for a target that is not an absolute path
read_fd_synthetic(e, pid, fd, real_path) ==
    LET parts == Split(real_path, ":")
    IN  IF Len(parts) # 2 THEN Raise("ValueError", <<>>)
        ELSE LET type == parts[1]
                 name == parts[2]
             IN  IF type = s_anon_inode
                 THEN FileInfo(e, pid, fd, s_a_inode, s_empty, s_zero, s_empty, name)
                 ELSE IF type = s_socket
                 THEN FileInfo(e, pid, fd, s_socket, Slice1m1(name), s_zero, s_empty, s_empty)
                 ELSE IF type = s_pipe
                 THEN FileInfo(e, pid, fd, s_FIFO, s_empty, s_empty, s_empty, s_pipe)
                 ELSE Return(None)

\* the except branch of read_fd
read_fd_except(e, pid, path, strerror) ==
    FileInfo(e, pid, s_NOFD, s_unknown, s_empty, s_empty, s_empty, ErrorName(path, strerror))

\* read_fd: only the OSError of readlink and of stat is caught; what FileInfo
\* and the unpacking of split raise is not an OSError and leaves read_fd
read_fd(e, pid, fd, path, use_rdev) ==
    LET rl == os_readlink(e, path)
    IN  IF rl.exc = "OSError" THEN read_fd_except(e, pid, path, rl.val)
        ELSE LET real_path == rl.val
             IN  IF real_path[1] = "/"
                 THEN LET st == os_stat(real_path)
                      IN  IF st.exc = "OSError" THEN read_fd_except(e, pid, path, st.val)
                          ELSE FileInfo(e, pid, fd, get_type(st.val),
                                        fmt_dev(st.val, use_rdev), st.val.st_size,
                                        st.val.st_ino, real_path)
                 ELSE read_fd_synthetic(e, pid, fd, real_path)

\* the loop of get_proc_fds over the listing, from entry i on
RECURSIVE get_proc_fds_loop(_, _, _, _, _)
get_proc_fds_loop(e, pid, names, i, ret) ==
    IF i > Len(names) THEN Return(ret)
    ELSE LET r == read_fd(e, pid, names[i], FdPath(pid, names[i]), TRUE)
         IN  IF r.exc # "none" THEN r
             ELSE get_proc_fds_loop(e, pid, names, i + 1, Append(ret, r.val))

get_proc_fds(e, pid) ==
    LET fd_dir_path == ProcPath(pid, s_fd)
        ls == os_listdir(e, fd_dir_path)
    IN  IF ls.exc = "OSError"
        THEN LET fi == FileInfo(e, pid, s_NOFD, s_unknown, s_empty, s_empty, s_empty,
                                ErrorName(fd_dir_path, ls.val))
             IN  IF fi.exc # "none" THEN fi ELSE Return(<<fi.val>>)
        ELSE get_proc_fds_loop(e, pid, ls.val, 1, <<>>)

get_proc_cwd(e, pid) == read_fd(e, pid, s_cwd_fd, ProcPath(pid, s_cwd), FALSE)

\* get_proc_root with the token the process's link is named by
get_proc_root_named_root(e, pid) ==
    read_fd(e, pid, <<"r", "o", "o", "t">>, ProcPath(pid, s_root), FALSE)

get_proc_root(e, pid) == read_fd(e, pid, s_rtd, ProcPath(pid, s_root), FALSE)

get_proc_txt(e, pid) == read_fd(e, pid, s_txt, ProcPath(pid, s_exe), FALSE)

\* maps_line with a line of fewer than five fields passed over
maps_line_skipping(e, pid, line, ret) ==
    LET parts == SplitWS(line)
    IN  IF Len(parts) < 5 THEN Return(ret)
        ELSE LET name == IF Len(parts) > 5 THEN parts[6] ELSE s_blah
             IN  IF name[1] # "/" THEN Return(ret)
                 ELSE LET fi == FileInfo(e, pid, s_mem, s_REG, Join(<<",">>, Split(parts[4], ":")),
                                         parts[3], parts[5], name)
                      IN  IF fi.exc # "none" THEN fi ELSE Return(Append(ret, fi.val))

\* the body of the loop of get_proc_maps for one line: the records so far with
\* the line's record appended, or the exception raised
maps_line(e, pid, line, ret) ==
    LET parts == SplitWS(line)
    IN  IF Len(parts) < 5 THEN Raise("IndexError", <<>>)
        ELSE LET offset == parts[3]
                 dev == parts[4]
                 inode == parts[5]
                 name == IF Len(parts) > 5 THEN parts[6] ELSE s_blah
             IN  IF name[1] # "/" THEN Return(ret)
                 ELSE LET fi == FileInfo(e, pid, s_mem, s_REG, Join(<<",">>, Split(dev, ":")),
                                         offset, inode, name)
                      IN  IF fi.exc # "none" THEN fi ELSE Return(Append(ret, fi.val))

RECURSIVE get_proc_maps_loop(_, _, _, _, _)
get_proc_maps_loop(e, pid, lines, i, ret) ==
    IF i > Len(lines) THEN Return(ret)
    ELSE LET r == maps_line(e, pid, lines[i], ret)
         IN  IF r.exc # "none" THEN r
             ELSE get_proc_maps_loop(e, pid, lines, i + 1, r.val)

\* get_proc_maps: the bare except turns every exception into []
get_proc_maps(e, pid) ==
    LET maps == open_maps(e, ProcPath(pid, s_maps))
    IN  IF maps.exc # "none" THEN Return(<<>>)
        ELSE LET r == get_proc_maps_loop(e, pid, maps.val, 1, <<>>)
             IN  IF r.exc # "none" THEN Return(<<>>) ELSE r

\* get_proc_files: the operands of + are evaluated left to right, and the first
\* exception leaves the function
get_proc_files(e, pid) ==
    LET c == get_proc_cwd(e, pid)
    IN  IF c.exc # "none" THEN c
        ELSE LET r == get_proc_root(e, pid)
    IN  IF r.exc # "none" THEN r
        ELSE LET t == get_proc_txt(e, pid)
    IN  IF t.exc # "none" THEN t
        ELSE LET m == get_proc_maps(e, pid)
                 f == get_proc_fds(e, pid)
    IN  IF f.exc # "none" THEN f
        ELSE Return(<<c.val>> \o <<r.val>> \o <<t.val>> \o m.val \o f.val)

-----------------------------------------------------------------------------
(* The inputs the model runs the code on *)

\* the pid the functions are called with outside a scan
CallPid == <<"2", "7">>

\* entries of a /proc listing
ProcEntries == {<<"1">>, <<"2", "7">>, <<"3">>, <<"s", "e", "l", "f">>}

\* all sequences over S of length at most n
SeqsUpTo(S, n) == UNION {[1..k -> S] : k \in 0..n}

\* the listings of /proc: no entry twice
Listings == {l \in SeqsUpTo(ProcEntries, MaxListing) :
                \A i, j \in 1..Len(l) : l[i] = l[j] => i = j}

LinkErrors == {Raise("OSError", ENOENT), Raise("OSError", EACCES)}

\* what readlink may answer for a descriptor
FdLinks == {Return(t) : t \in {P_slash, P_a, P_b, P_t, P_s, P_x, T_sock, T_anon,
                               T_kvm, T_pipe, T_net, T_nocolon}} \cup LinkErrors

\* what readlink may answer for cwd, root and exe: a path, or a failure
PathLinks == {Return(t) : t \in {P_slash, P_a, P_b, P_t, P_s, P_x}} \cup LinkErrors

\* what readlink may answer for cwd, root and exe in the environments of get_proc_files
PseudoLinks == {Return(P_slash), Return(P_a), Return(P_x), Raise("OSError", ENOENT)}

\* what readlink may answer for a descriptor in the environments of get_proc_files
FilesFdLinks == {Return(P_a), Return(P_t), Return(T_sock), Return(T_net),
                 Return(T_nocolon), Raise("OSError", ENOENT)}

MapLines == {L_abs, L_abs2, L_heap, L_anon, L_bad}

MapsUnreadable == Raise("IOError", EACCES)

\* the maps tables of the environments of get_proc_maps
MapsTables == {Return(t) : t \in SeqsUpTo(MapLines, MaxLines)} \cup {MapsUnreadable}

\* the maps tables of the environments of get_proc_files
FilesMaps == {MapsUnreadable, Return(<<>>), Return(<<L_abs, L_heap, L_abs2>>),
              Return(<<L_abs, L_bad>>)}

ListErrors == {Raise("OSError", ENOENT), Raise("OSError", EACCES)}

FdLists(links, n) == {Return(l) : l \in SeqsUpTo(links, n)} \cup ListErrors

Env(pid, proc, cwd, root, exe, maps, fdlist) ==
    [pid |-> pid, proc |-> proc, cwd |-> cwd, root |-> root, exe |-> exe,
     maps |-> maps, fdlist |-> fdlist]

\* the environments of a scan: a process in good order, one that is gone, one
\* with a descriptor of an unrecognised kind, one with a vanished descriptor,
\* one with a kvm vcpu descriptor
ScanShapes ==
    {<<Return(P_slash), Return(P_slash), Return(P_a), Return(<<L_abs>>),
       Return(<<Return(P_a), Return(T_sock)>>)>>,
     <<Raise("OSError", ENOENT), Raise("OSError", ENOENT), Raise("OSError", ENOENT),
       Raise("IOError", ENOENT), Raise("OSError", ENOENT)>>,
     <<Return(P_slash), Return(P_slash), Return(P_a), Return(<<>>),
       Return(<<Return(T_net)>>)>>,
     <<Return(P_slash), Return(P_slash), Return(P_a), Return(<<L_heap>>),
       Return(<<Raise("OSError", ENOENT)>>)>>,
     <<Return(P_slash), Return(P_slash), Return(P_a), MapsUnreadable,
       Return(<<Return(T_kvm)>>)>>}

ScanEnvs(pid) == {Env(pid, p, s[1], s[2], s[3], s[4], s[5]) : p \in ProcStates, s \in ScanShapes}

-----------------------------------------------------------------------------
(* lsof(): the scan *)

\* the arguments of fmt.format for the heading
Header == "COMMAND PID USER FD TYPE DEVICE SIZE/OFF NODE NAME"

\* the arguments of fmt.format for one record, in column order (the padding of
\* the columns is not modelled)
Row(file_info) ==
    <<file_info.cmd, file_info.pid, file_info.usr, file_info.fd, file_info.type,
      file_info.dev, file_info.size, file_info.node, file_info.name>>

NoCall == [fn |-> "none"]

Init ==
    /\ pc = "start"
    /\ listing = <<>>
    /\ idx = 0
    /\ pending = <<>>
    /\ output = <<>>
    /\ error = "none"
    /\ visited = <<>>
    /\ call = NoCall

\* the heading is printed and /proc is listed
Start ==
    /\ pc = "start"
    /\ \E l \in Listings : listing' = l
    /\ output' = <<Header>>
    /\ idx' = 1
    /\ pc' = "loop"
    /\ UNCHANGED <<pending, error, visited, call>>

\* an entry that is not a pid is passed over
Skip ==
    /\ pc = "loop"
    /\ idx <= Len(listing)
    /\ ~isdigit(listing[idx])
    /\ idx' = idx + 1
    /\ UNCHANGED <<pc, listing, pending, output, error, visited, call>>

\* get_proc_files(pid) is called for the next pid; an exception it raises
\* is caught nowhere and ends the script
Visit ==
    /\ pc = "loop"
    /\ idx <= Len(listing)
    /\ isdigit(listing[idx])
    /\ \E e \in ScanEnvs(listing[idx]) :
          LET r == get_proc_files(e, listing[idx])
          IN  /\ visited' = Append(visited, [pid |-> listing[idx], e |-> e, ret |-> r])
              /\ IF r.exc # "none"
                 THEN /\ pc' = "aborted"
                      /\ error' = r.exc
                      /\ pending' = <<>>
                 ELSE /\ pc' = "print"
                      /\ error' = error
                      /\ pending' = r.val
    /\ UNCHANGED <<listing, idx, output, call>>

\* one element of the list is printed; None has no attribute cmd
PrintRow ==
    /\ pc = "print"
    /\ pending # <<>>
    /\ IF Head(pending) = None
       THEN /\ pc' = "aborted"
            /\ error' = "AttributeError"
            /\ UNCHANGED <<output, pending>>
       ELSE /\ output' = Append(output, Row(Head(pending)))
            /\ pending' = Tail(pending)
            /\ UNCHANGED <<pc, error>>
    /\ UNCHANGED <<listing, idx, visited, call>>

\* the list of the pid is exhausted
NextPid ==
    /\ pc = "print"
    /\ pending = <<>>
    /\ pc' = "loop"
    /\ idx' = idx + 1
    /\ UNCHANGED <<listing, pending, output, error, visited, call>>

\* the listing is exhausted
Finish ==
    /\ pc = "loop"
    /\ idx > Len(listing)
    /\ pc' = "done"
    /\ UNCHANGED <<listing, idx, pending, output, error, visited, call>>

Next == Start \/ Skip \/ Visit \/ PrintRow \/ NextPid \/ Finish

Spec == Init /\ [][Next]_vars

-----------------------------------------------------------------------------
(* The functions of lsof.py called one at a time, on every input of the     *)
(* bounded sets: call records the last call and what it returned or raised *)

\* get_proc_cwd, get_proc_root, get_proc_txt or the read_fd of a numbered descriptor
CallReadFd ==
    /\ call.fn = "none"
    /\ UNCHANGED scan_vars
    /\ \E proc \in ProcStates, slot \in {"cwd", "root", "exe", "fd"} :
       \E link \in IF slot = "fd" THEN FdLinks ELSE PathLinks :
       LET other == Return(P_slash)
           e == Env(CallPid, proc,
                    IF slot = "cwd" THEN link ELSE other,
                    IF slot = "root" THEN link ELSE other,
                    IF slot = "exe" THEN link ELSE other,
                    MapsUnreadable,
                    IF slot = "fd" THEN Return(<<link>>) ELSE Return(<<>>))
       IN  call' = [fn |-> "read_fd", e |-> e, pid |-> CallPid, slot |-> slot, link |-> link,
                    ret |-> CASE slot = "cwd" -> get_proc_cwd(e, CallPid)
                              [] slot = "root" -> get_proc_root(e, CallPid)
                              [] slot = "exe" -> get_proc_txt(e, CallPid)
                              [] OTHER -> read_fd(e, CallPid, FdName(1),
                                                  FdPath(CallPid, FdName(1)), TRUE)]

CallGetProcFds ==
    /\ call.fn = "none"
    /\ UNCHANGED scan_vars
    /\ \E proc \in ProcStates, fdlist \in FdLists(FdLinks, MaxFds) :
       LET e == Env(CallPid, proc, Return(P_slash), Return(P_slash), Return(P_a),
                    MapsUnreadable, fdlist)
       IN  call' = [fn |-> "get_proc_fds", e |-> e, pid |-> CallPid,
                    ret |-> get_proc_fds(e, CallPid)]

CallGetProcMaps ==
    /\ call.fn = "none"
    /\ UNCHANGED scan_vars
    /\ \E proc \in ProcStates, maps \in MapsTables :
       LET e == Env(CallPid, proc, Return(P_slash), Return(P_slash), Return(P_a),
                    maps, Return(<<>>))
       IN  call' = [fn |-> "get_proc_maps", e |-> e, pid |-> CallPid,
                    ret |-> get_proc_maps(e, CallPid)]

CallGetProcFiles ==
    /\ call.fn = "none"
    /\ UNCHANGED scan_vars
    /\ \E proc \in ProcStates, cwd \in PseudoLinks, root \in PseudoLinks, exe \in PseudoLinks,
       maps \in FilesMaps, fdlist \in FdLists(FilesFdLinks, MaxFilesFds) :
       LET e == Env(CallPid, proc, cwd, root, exe, maps, fdlist)
       IN  call' = [fn |-> "get_proc_files", e |-> e, pid |-> CallPid,
                    ret |-> get_proc_files(e, CallPid)]

\* one call per behaviour
NextCalls == CallReadFd \/ CallGetProcFds \/ CallGetProcMaps \/ CallGetProcFiles

SpecCalls == Init /\ [][NextCalls]_vars

-----------------------------------------------------------------------------
(* Vocabulary of the properties *)

IsRecord(x) == x.class = "FileInfo"

Categories == {s_REG, s_DIR, s_CHR, s_FIFO, s_a_inode, s_socket, s_unknown}

StartsWith(s, prefix) == Len(s) >= Len(prefix) /\ SubSeq(s, 1, Len(prefix)) = prefix

Contains(s, sub) == \E i \in 0..(Len(s) - Len(sub)) : SubSeq(s, i + 1, i + Len(sub)) = sub

\* the answer of readlink is an absolute path that stat can read
Resolvable(link) == link.exc = "none" /\ link.val[1] = "/" /\ os_stat(link.val).exc = "none"

\* readlink fails, or stat of the absolute target fails
LinkFails(link) ==
    \/ link.exc = "OSError"
    \/ (link.val[1] = "/" /\ os_stat(link.val).exc = "OSError")

\* the error text of a failing link
LinkError(link) == IF link.exc = "OSError" THEN link.val ELSE os_stat(link.val).val

\* the record a failed descriptor read is claimed to yield
IsErrorRecord(x, path, strerror) ==
    /\ IsRecord(x)
    /\ x.fd = s_NOFD
    /\ x.type = s_unknown
    /\ x.dev = <<>> /\ x.size = <<>> /\ x.node = <<>>
    /\ Contains(x.name, path)
    /\ Contains(x.name, strerror)

\* the pids among the entries of a listing, in listing order
NumericEntries(l) == SelectSeq(l, isdigit)

\* the rows of a list of records
RECURSIVE Rows(_)
Rows(files) == IF files = <<>> THEN <<>> ELSE <<Row(Head(files))>> \o Rows(Tail(files))

\* the rows of the lists get_proc_files returned for the visited pids, in order
RECURSIVE RowsOfVisits(_)
RowsOfVisits(vs) ==
    IF vs = <<>> THEN <<>> ELSE Rows(Head(vs).ret.val) \o RowsOfVisits(Tail(vs))

-----------------------------------------------------------------------------
(* The properties *)

\* C1: a scan never aborts: whatever the listing and whatever fails, no
\* exception ends the scan, and a scan that has ended has enumerated every
\* numeric pid of the listing.
C1_ScanNeverAborts ==
    /\ pc # "aborted"
    /\ error = "none"
    /\ pc = "done" =>
          [i \in 1..Len(visited) |-> visited[i].pid] = NumericEntries(listing)

\* C2: building the record of a descriptor of a process whose status lookup or
\* user lookup fails still yields a record, with pid, fd, type, dev, size, node
\* and name as given; so do the error records of the except branches.  Stated
\* on read_fd for a failed readlink (the except branch) and for a socket.
C2_RecordDespiteLookupFailure ==
    (/\ call.fn = "read_fd"
     /\ call.e.proc \in {"exited", "nouser"}
     /\ call.link \in LinkErrors \cup {Return(T_sock)})
    => /\ call.ret.exc = "none"
       /\ IsRecord(call.ret.val)
       /\ call.ret.val.pid = call.pid
       /\ IF call.link = Return(T_sock)
          THEN /\ call.ret.val.type = s_socket
               /\ call.ret.val.dev = <<"5">>
               /\ call.ret.val.size = s_zero
               /\ call.ret.val.node = <<>>
               /\ call.ret.val.name = <<>>
          ELSE /\ call.ret.val.fd = s_NOFD
               /\ call.ret.val.type = s_unknown
               /\ call.ret.val.dev = <<>>
               /\ call.ret.val.size = <<>>
               /\ call.ret.val.node = <<>>

\* the environment of a get_proc_fds call with every failing descriptor
\* replaced by one that reads a regular file
WithoutFailures(e) ==
    [e EXCEPT !.fdlist = Return([i \in 1..Len(e.fdlist.val) |->
                                   IF LinkFails(e.fdlist.val[i]) THEN Return(P_a)
                                   ELSE e.fdlist.val[i]])]

\* C3: when the fd directory lists n descriptors and readlink or stat fails for
\* some of them, get_proc_fds returns n records in listing order, an error
\* record (NOFD, unknown, empty dev/size/node, the path and the reason in the
\* name) for each failing one and for the others the record they have when
\* nothing fails.
C3_PerDescriptorIsolation ==
    (/\ call.fn = "get_proc_fds"
     /\ call.e.fdlist.exc = "none"
     /\ \E i \in 1..Len(call.e.fdlist.val) : LinkFails(call.e.fdlist.val[i]))
    => LET links == call.e.fdlist.val
           other == get_proc_fds(WithoutFailures(call.e), call.pid)
       IN  /\ call.ret.exc = "none"
           /\ Len(call.ret.val) = Len(links)
           /\ \A i \in 1..Len(links) :
                 IF LinkFails(links[i])
                 THEN IsErrorRecord(call.ret.val[i], FdPath(call.pid, FdName(i)),
                                    LinkError(links[i]))
                 ELSE /\ IsRecord(call.ret.val[i])
                      /\ other.exc = "none"
                      /\ call.ret.val[i] = other.val[i]

\* C4: when the fd directory cannot be listed, the numbered-descriptor section
\* of get_proc_files is one error record (NOFD, unknown), and the cwd, root, exe
\* and memory-map sections come before it as they are when the directory is
\* listed and empty.
C4_UnlistableFdDirectory ==
    (/\ call.fn = "get_proc_files"
     /\ call.e.fdlist.exc = "OSError")
    => LET listed == get_proc_files([call.e EXCEPT !.fdlist = Return(<<>>)], call.pid)
           n == Len(call.ret.val)
       IN  /\ call.ret.exc = "none"
           /\ n >= 4
           /\ IsErrorRecord(call.ret.val[n], ProcPath(call.pid, s_fd), call.e.fdlist.val)
           /\ listed.exc = "none"
           /\ SubSeq(call.ret.val, 1, n - 1) = listed.val

\* the entry of get_proc_files for cwd, root or exe: a record carrying the
\* token (or NOFD after a failure), and the token and the target when the
\* target resolves
SlotOk(x, link, token) ==
    /\ IsRecord(x)
    /\ x.fd \in {token, s_NOFD}
    /\ Resolvable(link) => (x.fd = token /\ x.name = link.val)

\* the section order of a list get_proc_files returned in environment e, with
\* the tokens given for the root directory and the executable
SectionOrder(v, e, pid, rootToken, exeToken) ==
    LET k == Len(get_proc_maps(e, pid).val)
        nfd == IF e.fdlist.exc = "none" THEN Len(e.fdlist.val) ELSE 1
    IN  /\ Len(v) = 3 + k + nfd
        /\ SlotOk(v[1], e.cwd, s_cwd_fd)
        /\ SlotOk(v[2], e.root, rootToken)
        /\ SlotOk(v[3], e.exe, exeToken)
        /\ \A i \in 4..(3 + k) : IsRecord(v[i]) /\ v[i].fd = s_mem
        /\ \A j \in 1..nfd :
              LET x == v[3 + k + j]
              IN  \/ x = None
                  \/ /\ IsRecord(x)
                     /\ x.fd \in (IF e.fdlist.exc = "none" THEN {FdName(j)} ELSE {}) \cup {s_NOFD}

\* C5 as stated: the list get_proc_files returns is one record for cwd, one for
\* the root directory, one for the executable, then the memory-map records,
\* then the numbered descriptors, and with resolvable targets the first three
\* carry the tokens cwd, root and exe.
C5_TokensCwdRootExe ==
    (call.fn = "get_proc_files" /\ call.ret.exc = "none")
    => SectionOrder(call.ret.val, call.e, call.pid, <<"r", "o", "o", "t">>, <<"e", "x", "e">>)

\* C5 amended: the same section order, and with resolvable targets the first
\* three records carry the tokens cwd, rtd and txt; every memory-map record
\* carries mem.
C5_SectionOrder ==
    (call.fn = "get_proc_files" /\ call.ret.exc = "none")
    => SectionOrder(call.ret.val, call.e, call.pid, s_rtd, s_txt)

\* a returned list with resolvable cwd, root and exe, memory-map records and a
\* numbered descriptor
C5_Witness ==
    /\ call.fn = "get_proc_files"
    /\ call.ret.exc = "none"
    /\ Resolvable(call.e.cwd) /\ Resolvable(call.e.root) /\ Resolvable(call.e.exe)
    /\ Len(call.ret.val) >= 6
    /\ call.ret.val[4].fd = s_mem
    /\ call.e.fdlist.exc = "none"
    /\ call.ret.val[Len(call.ret.val)].fd = FdName(1)

\* C6: every element of the list get_proc_files returns is a record whose type
\* is set, and a descriptor whose target is of no recognised kind (net:[4], or
\* a target without ':') yields a record of type unknown.
C6_EveryElementIsRecord ==
    (call.fn = "get_proc_files" /\ call.e.proc = "alive")
    => LET v == call.ret.val
           links == call.e.fdlist.val
       IN  /\ call.ret.exc = "none" =>
                 \A i \in 1..Len(v) : IsRecord(v[i]) /\ v[i].type \in Categories
           /\ call.e.fdlist.exc = "none" =>
                 \A j \in 1..Len(links) :
                    links[j] \in {Return(T_net), Return(T_nocolon)} =>
                       /\ call.ret.exc = "none"
                       /\ IsRecord(v[Len(v) - Len(links) + j])
                       /\ v[Len(v) - Len(links) + j].type = s_unknown

\* C7: for a live process, a target anon_inode:d yields type a_inode, empty dev,
\* size "0", empty node and name d (d being all that follows the first ':'); a
\* target socket:[d] yields type socket, dev d, size "0", empty node and name;
\* a target pipe:d yields type FIFO, empty dev, size and node, and name "pipe".
C7_SyntheticTargets ==
    (/\ call.fn = "read_fd"
     /\ call.e.proc = "alive"
     /\ call.link.exc = "none"
     /\ call.link.val[1] # "/")
    => LET t == call.link.val
           r == call.ret.val
       IN  /\ StartsWith(t, s_anon_inode \o <<":">>) =>
                 /\ call.ret.exc = "none"
                 /\ IsRecord(r)
                 /\ r.type = s_a_inode /\ r.dev = <<>> /\ r.size = <<"0">> /\ r.node = <<>>
                 /\ r.name = SubSeq(t, Len(s_anon_inode) + 2, Len(t))
           /\ (StartsWith(t, s_socket \o <<":", "[">>) /\ t[Len(t)] = "]") =>
                 /\ call.ret.exc = "none"
                 /\ IsRecord(r)
                 /\ r.type = s_socket /\ r.size = <<"0">> /\ r.node = <<>> /\ r.name = <<>>
                 /\ r.dev = SubSeq(t, Len(s_socket) + 3, Len(t) - 1)
           /\ StartsWith(t, s_pipe \o <<":">>) =>
                 /\ call.ret.exc = "none"
                 /\ IsRecord(r)
                 /\ r.type = s_FIFO /\ r.dev = <<>> /\ r.size = <<>> /\ r.node = <<>>
                 /\ r.name = s_pipe

\* C8: for a live process, a descriptor (cwd, root, exe or numbered) whose
\* target is a readable regular file of size S and inode I on device M,m has
\* type REG, dev "M,m", size S, node I and the target as its name.
C8_RegularFileFields ==
    (/\ call.fn = "read_fd"
     /\ call.e.proc = "alive"
     /\ Resolvable(call.link)
     /\ S_ISREG(os_stat(call.link.val).val.st_mode))
    => LET st == os_stat(call.link.val).val
           r == call.ret.val
       IN  /\ call.ret.exc = "none"
           /\ IsRecord(r)
           /\ r.type = s_REG
           /\ r.dev = IntToStr(os_major(st.st_dev)) \o <<",">> \o IntToStr(os_minor(st.st_dev))
           /\ r.size = st.st_size
           /\ r.node = st.st_ino
           /\ r.name = call.link.val

\* a line of a maps table has the five fields the code reads
WellFormedLine(line) == Len(SplitWS(line)) >= 5

\* a line of a maps table names an absolute path
IsAbsLine(line) == Len(SplitWS(line)) > 5 /\ SplitWS(line)[6][1] = "/"

ColonToComma(s) == [i \in 1..Len(s) |-> IF s[i] = ":" THEN "," ELSE s[i]]

\* the record of a line that names an absolute path
IsMapRecord(x, line, pid) ==
    LET parts == SplitWS(line)
    IN  /\ IsRecord(x)
        /\ x.pid = pid
        /\ x.fd = s_mem
        /\ x.type = s_REG
        /\ x.size = parts[3]
        /\ x.dev = ColonToComma(parts[4])
        /\ x.node = parts[5]
        /\ x.name = parts[6]

\* one record per line that names an absolute path, in table order
OneRecordPerAbsLine(v, lines, pid) ==
    LET good == SelectSeq(lines, IsAbsLine)
    IN  /\ Len(v) = Len(good)
        /\ \A i \in 1..Len(good) : IsMapRecord(v[i], good[i], pid)

\* C9 as stated, for a live process: for a readable table get_proc_maps returns
\* one record per line naming an absolute path, in table order; pseudo-paths and
\* lines without a path give none, and a malformed line is skipped and takes
\* no record of another line away.
C9_MalformedLineSkipped ==
    (/\ call.fn = "get_proc_maps"
     /\ call.e.proc = "alive"
     /\ call.e.maps.exc = "none")
    => /\ call.ret.exc = "none"
       /\ OneRecordPerAbsLine(call.ret.val, call.e.maps.val, call.pid)

\* C9 amended: get_proc_maps never raises; when the table is readable, every
\* line has at least five fields and the record of every line naming an
\* absolute path can be built, it returns one record per such line, in table
\* order (fd mem, type REG, size the offset field, dev the device field with
\* ',' for ':', node the inode field); otherwise (unreadable table, a line of
\* fewer than five fields, or a record that cannot be built) it returns the
\* empty list, the records of the other lines included.
C9_AllOrNothing ==
    call.fn = "get_proc_maps"
    => /\ call.ret.exc = "none"
       /\ IF \/ call.e.maps.exc # "none"
             \/ \E i \in 1..Len(call.e.maps.val) : ~WellFormedLine(call.e.maps.val[i])
             \/ /\ call.e.proc # "alive"
                /\ \E i \in 1..Len(call.e.maps.val) : IsAbsLine(call.e.maps.val[i])
          THEN call.ret.val = <<>>
          ELSE OneRecordPerAbsLine(call.ret.val, call.e.maps.val, call.pid)

\* a readable table of a live process with a line naming an absolute path and
\* a line naming none, and the one record returned for it
C9_Witness ==
    /\ call.fn = "get_proc_maps"
    /\ call.e.proc = "alive"
    /\ call.e.maps.exc = "none"
    /\ Len(call.e.maps.val) = 2
    /\ \A i \in 1..2 : WellFormedLine(call.e.maps.val[i])
    /\ Len(SelectSeq(call.e.maps.val, IsAbsLine)) = 1
    /\ Len(call.ret.val) = 1
    /\ call.ret.val[1].fd = s_mem

\* C10: a scan that has ended has visited exactly the numeric entries of the
\* listing, in listing order, and its output is the heading followed by the
\* rows of get_proc_files(pid) of every visited pid, in that order.
C10_VisitsNumericEntriesInOrder ==
    pc \in {"done", "aborted"}
    => /\ [i \in 1..Len(visited) |-> visited[i].pid] = NumericEntries(listing)
       /\ \A i \in 1..Len(visited) :
             /\ visited[i].ret.exc = "none"
             /\ \A j \in 1..Len(visited[i].ret.val) :
                   /\ IsRecord(visited[i].ret.val[j])
                   /\ visited[i].ret.val[j].pid = visited[i].pid
       /\ output = <<Header>> \o RowsOfVisits(visited)

-----------------------------------------------------------------------------
(* Where the isolation of C3, C4 and C10 does hold: the command and user of *)
(* the process can be read and every target is of a kind read_fd knows      *)

RecognisedTarget(link) == link \notin {Return(T_net), Return(T_nocolon), Return(T_kvm)}

\* for a live process whose descriptors are all of a recognised kind, the
\* failing descriptors become error records and the others are untouched
Live_PerDescriptorIsolation ==
    (/\ call.fn = "get_proc_fds"
     /\ call.e.proc = "alive"
     /\ call.e.fdlist.exc = "none"
     /\ \A i \in 1..Len(call.e.fdlist.val) : RecognisedTarget(call.e.fdlist.val[i]))
    => C3_PerDescriptorIsolation

\* for a live process an unlistable fd directory becomes one error record
Live_UnlistableFdDirectory ==
    (call.fn = "get_proc_files" /\ call.e.proc = "alive") => C4_UnlistableFdDirectory

\* a scan that reaches its end has visited the numeric entries in order
Done_VisitsNumericEntriesInOrder ==
    pc = "done" => C10_VisitsNumericEntriesInOrder

\* a scan reaches its end only when the command and user of every visited
\* process could be read
Done_OnlyLiveProcesses ==
    pc = "done" => \A i \in 1..Len(visited) : visited[i].e.proc = "alive"

====
